---- MODULE Spec2Model ----
(***************************************************************************)
(* Content Forge Bot (src/main.py): a Telegram bot that scrapes a product  *)
(* URL, asks Gemini for four platform sections, keeps the parsed draft in  *)
(* the module-level dict user_draft_content and posts it through SocialBu  *)
(* when the user sends /approve.                                           *)
(*                                                                         *)
(* Strings are sequences of tokens.  A token is an atomic piece of text    *)
(* ("## ", a platform name, a blank, a letter), so str.find, slicing and   *)
(* str.strip are computed position by position as Python computes them.    *)
(* Python None is the record PyNone; a dict is a TLA+ function whose       *)
(* DOMAIN is the set of its keys.                                          *)
(***************************************************************************)
EXTENDS Integers, Sequences, FiniteSets, Bags, TLC

VARIABLES
    user_draft_content,   \* dict user_id -> stored draft             (main.py:33)
    gemini_client,        \* TRUE iff the Gemini client was built     (main.py:24-28)
    SOCIALBU_API_KEY,     \* TRUE iff the environment holds the key   (main.py:21)
    tasks,                \* handler coroutines suspended at an await
    genCount,             \* history: drafts stored so far, per user
    distributed,          \* history: drafts handed to the distributor, per user
    last,                 \* what the most recent handler step did (calls, replies)
    raw_text,             \* generate_sales_copy: text returned by the model
    content_dict,         \* generate_sales_copy: parsed dict / distributor input
    socialbu_response,    \* distribute_content_socialbu: outcome of requests.post
    distribution_result   \* distribute_content_socialbu: value returned

vars == <<user_draft_content, gemini_client, SOCIALBU_API_KEY, tasks, genCount,
          distributed, last, raw_text, content_dict, socialbu_response,
          distribution_result>>

(***************************************************************************)
(* Bounds                                                                  *)
(***************************************************************************)
NumSessions == 2      \* chat users
MaxTasks == 2         \* handler coroutines in flight at once
MaxGens == 2          \* drafts stored, all users together
MaxTextLen == 4       \* length of the free-form model responses

Sessions == 1..NumSessions

(***************************************************************************)
(* Python values                                                           *)
(***************************************************************************)
EmptyDict == [k \in {} |-> <<>>]
PyNone == [isNone |-> TRUE, items |-> EmptyDict]
PyDict(f) == [isNone |-> FALSE, items |-> f]

\* d.get(k, default)
DictGet(d, k, default) == IF k \in DOMAIN d THEN d[k] ELSE default

SeqMin(S) == CHOOSE i \in S : \A j \in S : i <= j

\* s.find(sub, start): lowest 0-based index at or after start, or -1
Find(s, sub, start) ==
    LET hits == {i \in start..(Len(s) - Len(sub)) :
                    SubSeq(s, i + 1, i + Len(sub)) = sub}
    IN  IF hits = {} THEN -1 ELSE SeqMin(hits)

\* s[a:b] with Python's treatment of a negative or oversized bound
Slice(s, a, b) ==
    LET n == Len(s)
        norm(i) == IF i < 0 THEN (IF i + n < 0 THEN 0 ELSE i + n)
                   ELSE (IF i > n THEN n ELSE i)
    IN  SubSeq(s, norm(a) + 1, norm(b))

Whitespace == {" "}

\* s.strip()
Strip(s) ==
    LET keep == {i \in 1..Len(s) : s[i] \notin Whitespace}
    IN  IF keep = {} THEN <<>>
        ELSE SubSeq(s, SeqMin(keep), CHOOSE i \in keep : \A j \in keep : j <= i)

\* sub in s
Contains(sub, s) == Find(s, sub, 0) # -1

\* s.startswith(prefix)
StartsWith(s, prefix) ==
    Len(s) >= Len(prefix) /\ SubSeq(s, 1, Len(prefix)) = prefix

(***************************************************************************)
(* generate_sales_copy: the section parser (main.py:108-130)               *)
(***************************************************************************)
platforms == <<"Facebook", "X (Twitter)", "LinkedIn", "Pinterest">>
Platforms == {platforms[i] : i \in 1..Len(platforms)}

HeaderMark == "## "
start_tag(platform) == <<HeaderMark, platform>>
\* end_tag: "## " for every platform but Pinterest, None for Pinterest
HasEndTag(platform) == platform # "Pinterest"

copy_of(text, platform) ==
    LET start_index == Find(text, start_tag(platform), 0)
        content_start == start_index + Len(start_tag(platform))
        end_index == IF HasEndTag(platform)
                     THEN Find(text, <<HeaderMark>>, content_start)
                     ELSE Len(text)
    IN  Strip(Slice(text, content_start, end_index))

ParseSections(text) ==
    [platform \in {p \in Platforms : Find(text, start_tag(p), 0) # -1}
        |-> copy_of(text, platform)]

(***************************************************************************)
(* Inputs of the parser: every text of at most MaxTextLen tokens, and the  *)
(* texts made of sections in the prompt's order, each present or not.      *)
(***************************************************************************)
Alphabet == Platforms \cup {HeaderMark, " ", "A", "B"}

RECURSIVE SeqsUpTo(_)
SeqsUpTo(n) ==
    IF n = 0 THEN {<<>>}
    ELSE LET shorter == SeqsUpTo(n - 1)
         IN  shorter \cup {Append(s, c) : s \in {q \in shorter : Len(q) = n - 1},
                                          c \in Alphabet}

SectionBodies == {<<>>, <<"A">>, <<" ", "B", " ">>, <<" ", "A", "B">>}

Section(platform, body) == start_tag(platform) \o body

SectionChoices(platform) ==
    {<<>>} \cup {Section(platform, b) : b \in SectionBodies}

SectionedTexts ==
    {f \o x \o l \o p : f \in SectionChoices("Facebook"),
                        x \in SectionChoices("X (Twitter)"),
                        l \in SectionChoices("LinkedIn"),
                        p \in SectionChoices("Pinterest")}

ParserInputs == SeqsUpTo(MaxTextLen) \cup SectionedTexts

(***************************************************************************)
(* scrape_product_details (main.py:39-69): what the handler gets back.     *)
(* The page and the parsing library are outside the program; the function  *)
(* returns None on any exception and a dict otherwise.                     *)
(***************************************************************************)
TitleNotFound == "Product Title Not Found"
DescriptionNotFound == <<"Description", "Not", "Found">>

\* (title, description) of the pages scraped: both found, no h1, neither found
Pages == {<<"Widget", <<"Great", "widget">>>>,
          <<TitleNotFound, <<"Great", "widget">>>>,
          <<TitleNotFound, DescriptionNotFound>>}

NoDetails == [isNone |-> TRUE, url |-> <<>>, title |-> "", description |-> <<>>]

ScrapeResults(url) ==
    {NoDetails} \cup
    {[isNone |-> FALSE, url |-> url, title |-> page[1], description |-> page[2]] :
        page \in Pages}

\* variant: the title sentinel is taken for a failed scrape as well
ScrapeFailed_titleToo(product_details) ==
    \/ product_details.isNone
    \/ Contains(DescriptionNotFound, product_details.description)
    \/ product_details.title = TitleNotFound

\* not product_details or 'Description Not Found' in product_details['description']
ScrapeFailed(product_details) ==
    \/ product_details.isNone
    \/ Contains(DescriptionNotFound, product_details.description)

(***************************************************************************)
(* generate_sales_copy (main.py:71-137)                                    *)
(***************************************************************************)
\* Responses of the model used by the session handlers
FullText ==
    Section("Facebook", <<"A">>) \o Section("X (Twitter)", <<" ", "B", " ">>)
    \o Section("LinkedIn", <<"A", "B">>) \o Section("Pinterest", <<"B">>)
GenTexts == {FullText,
             Section("Facebook", <<"A">>) \o Section("LinkedIn", <<"B", "A">>),
             <<"A", " ", "B">>}

\* what models.generate_content does: returns a text or raises
GeminiOutcomes ==
    {[kind |-> "text", text |-> t] : t \in GenTexts}
    \cup {[kind |-> "APIError", text |-> <<>>], [kind |-> "Exception", text |-> <<>>]}

\* the pair (text, dict) the function returns
generate_sales_copy(client, outcome) ==
    IF ~client
    THEN [markdown |-> [msg |-> "ClientNotInitialized"], dict |-> PyNone,
          called |-> FALSE]
    ELSE IF outcome.kind = "text"
    THEN [markdown |-> [msg |-> "raw", text |-> outcome.text],
          dict |-> PyDict(ParseSections(outcome.text)), called |-> TRUE]
    ELSE IF outcome.kind = "APIError"
    THEN [markdown |-> [msg |-> "GeminiAPIError"], dict |-> PyNone, called |-> TRUE]
    ELSE [markdown |-> [msg |-> "UnexpectedGenerationError"], dict |-> PyNone,
          called |-> TRUE]

\* variant: `generated_dict == {}`, which lets None through
GenerationFailed_emptyOnly(generated_dict) ==
    ~generated_dict.isNone /\ DOMAIN generated_dict.items = {}

\* not generated_dict
GenerationFailed(generated_dict) ==
    generated_dict.isNone \/ DOMAIN generated_dict.items = {}

(***************************************************************************)
(* distribute_content_socialbu (main.py:140-172)                           *)
(***************************************************************************)
JsonNull == [type |-> "null", items |-> EmptyDict]
JsonArray == [type |-> "array", items |-> EmptyDict]
JsonObject(f) == [type |-> "object", items |-> f]

Field(k, present, v) == IF present THEN k :> v ELSE EmptyDict

DataValues == {JsonNull, JsonObject(EmptyDict), JsonObject("post_id" :> "42")}

JsonBodies ==
    {JsonArray} \cup
    {JsonObject(Field("status", s # "", s) @@ Field("message", m # "", m)
                @@ Field("data", d.present, d.value)) :
        s \in {"", "success", "error"},
        m \in {"", "bad id"},
        d \in {[present |-> FALSE, value |-> JsonNull]}
              \cup {[present |-> TRUE, value |-> v] : v \in DataValues}}

\* what requests.post / raise_for_status / response.json() do
PostOutcomes ==
    {[kind |-> "RequestException", e |-> e, json |-> JsonNull] :
        e \in {"timeout", "connection", "http 500"}}
    \cup {[kind |-> "Exception", e |-> "ValueError", json |-> JsonNull]}
    \cup {[kind |-> "json", e |-> "", json |-> b] : b \in JsonBodies}

NoPayload == [content |-> <<>>]
payload(content_dict_) ==
    [content |-> <<<<"Multi-platform content generated by Content Forge Bot:">>,
                   DictGet(content_dict_.items, "Facebook", <<>>),
                   DictGet(content_dict_.items, "X (Twitter)", <<>>)>>]

\* the body of the try block once the response has arrived (main.py:161-165)
InspectResponse(socialbu_data) ==
    IF socialbu_data.type # "object"
    THEN [msg |-> "UnexpectedDistributionError"]       \* .get on a non-dict
    ELSE IF DictGet(socialbu_data.items, "status", "None") = "success"
    THEN LET data == DictGet(socialbu_data.items, "data", JsonObject(EmptyDict))
         IN  IF data.type # "object"
             THEN [msg |-> "UnexpectedDistributionError"]   \* .get on a non-dict
             ELSE [msg |-> "Distributed",
                   post_id |-> DictGet(data.items, "post_id", "None")]
    ELSE [msg |-> "SocialBuError",
          message |-> DictGet(socialbu_data.items, "message", "Unknown error")]

NoResult == [msg |-> "NotReturned"]

\* result: the string returned; posted: requests.post was invoked;
\* raised: an exception left the function
distribute_content_socialbu(key, content_dict_, outcome) ==
    IF ~key
    THEN [result |-> [msg |-> "KeyMissing"], posted |-> FALSE, raised |-> FALSE,
          payload |-> NoPayload]
    ELSE IF content_dict_.isNone
    THEN [result |-> NoResult, posted |-> FALSE, raised |-> TRUE,   \* None.get
          payload |-> NoPayload]
    ELSE [result |->
            IF outcome.kind = "RequestException"
            THEN [msg |-> "NetworkError", e |-> outcome.e]
            ELSE IF outcome.kind = "Exception"
            THEN [msg |-> "UnexpectedDistributionError"]
            ELSE InspectResponse(outcome.json),
          posted |-> TRUE, raised |-> FALSE, payload |-> payload(content_dict_)]

(***************************************************************************)
(* The draft store: the dict user_draft_content (main.py:33).  A stored    *)
(* value is the parsed dict; by and gen are history tags naming the user   *)
(* whose URL message produced it and the ordinal of that draft.            *)
(***************************************************************************)
Draft(generated_dict, user_id, n) == [dict |-> generated_dict, by |-> user_id, gen |-> n]
NoDraft == Draft(PyNone, 0, 0)

\* variant: `if not user_draft_content`, any user's draft will do
DraftPresent_any(d, user_id) == DOMAIN d # {}

\* user_id in user_draft_content                                (main.py:243)
DraftPresent(d, user_id) == user_id \in DOMAIN d

\* variant: user_draft_content.setdefault(user_id, generated_dict)
Put_keepOld(d, user_id, v) ==
    [u \in DOMAIN d \cup {user_id} |-> IF u \in DOMAIN d THEN d[u] ELSE v]

\* variant: user_draft_content = {user_id: generated_dict}
Put_replaceAll(d, user_id, v) == [u \in {user_id} |-> v]

\* user_draft_content[user_id] = generated_dict                 (main.py:223)
Put(d, user_id, v) ==
    [u \in DOMAIN d \cup {user_id} |-> IF u = user_id THEN v ELSE d[u]]

\* variant: user_draft_content.get(user_id), the entry stays
PopRest_keep(d, user_id) == d

\* user_draft_content.pop(user_id): the dict that is left       (main.py:247)
PopRest(d, user_id) == [u \in DOMAIN d \ {user_id} |-> d[u]]

(***************************************************************************)
(* Messages of the chat                                                    *)
(***************************************************************************)
Http == <<"h", "t", "t", "p">>
MessageTexts == {<<"h", "t", "t", "p", "s", ":", "x">>,                 \* https:x
                 <<"s", "e", "e", " ", "h", "t", "t", "p", ":", "x">>}   \* see http:x

\* variant: 'http' in url
LooksLikeUrl_contains(url) == Contains(Http, url)

\* url.startswith('http')                                       (main.py:202)
LooksLikeUrl(url) == StartsWith(url, Http)

InvalidUrlMsg == [msg |-> "InvalidUrl"]
UrlReceivedMsg == [msg |-> "UrlReceived"]
ScrapeFailedMsg == [msg |-> "ScrapeFailed"]
GenerationFailedMsg(generated_markdown) ==
    [msg |-> "GenerationFailed", detail |-> generated_markdown]
DraftReadyMsg(product_details, generated_markdown) ==
    [msg |-> "DraftReady", title |-> product_details.title,
     url |-> product_details.url, markdown |-> generated_markdown]
NoContentMsg == [msg |-> "NoContentWaiting"]
ApprovalReceivedMsg == [msg |-> "ApprovalReceived"]
DistributionStatusMsg(distribution_result_) ==
    [msg |-> "DistributionStatus", result |-> distribution_result_]

(***************************************************************************)
(* Handlers.  A handler runs without interruption from one await to the    *)
(* next; the network calls are blocking calls inside one such stretch.     *)
(* tasks is the bag of handlers suspended at an `await reply_text` with    *)
(* work still to do, each with its local variables.                        *)
(***************************************************************************)
ScrapeTask(user_id, url) ==
    [pc |-> "scrape", user_id |-> user_id, url |-> url,
     content_to_distribute |-> NoDraft]
DistributeTask(user_id, content_to_distribute) ==
    [pc |-> "distribute", user_id |-> user_id, url |-> <<>>,
     content_to_distribute |-> content_to_distribute]

Suspend(task) == tasks (+) SetToBag({task})
Resume(task) == tasks (-) SetToBag({task})
Suspended == BagToSet(tasks)

NotGenerated == [markdown |-> [msg |-> "NotCalled"], dict |-> PyNone, called |-> FALSE]
NotDistributed == [result |-> NoResult, posted |-> FALSE, raised |-> FALSE,
                   payload |-> NoPayload]

\* the record of one handler step
Obs(handler, user_id, text, details, generated, dist, handed, replies, calls, raised) ==
    [handler |-> handler, user_id |-> user_id, text |-> text,
     product_details |-> details, generated |-> generated, distribution |-> dist,
     handed |-> handed, replies |-> replies, calls |-> calls, raised |-> raised]

NoObs == Obs("none", 0, <<>>, NoDetails, NotGenerated, NotDistributed, NoDraft,
             <<>>, {}, FALSE)

PureUnchanged == UNCHANGED <<raw_text, content_dict, socialbu_response,
                             distribution_result>>
EnvUnchanged == UNCHANGED <<gemini_client, SOCIALBU_API_KEY>>

RECURSIVE SumOver(_, _)
SumOver(f, S) ==
    IF S = {} THEN 0
    ELSE LET u == CHOOSE x \in S : TRUE IN f[u] + SumOver(f, S \ {u})

UrlInFlight ==
    LET scraping == {task \in Suspended : task.pc = "scrape"}
    IN  SumOver([task \in scraping |-> CopiesIn(task, tasks)], scraping)

\* url_message, text rejected                                 (main.py:198-204)
url_message_reject(user_id, text) ==
    /\ ~LooksLikeUrl(text)
    /\ last' = Obs("url_message", user_id, text, NoDetails, NotGenerated,
                   NotDistributed, NoDraft, <<InvalidUrlMsg>>, {}, FALSE)
    /\ UNCHANGED <<user_draft_content, tasks, genCount, distributed>>
    /\ EnvUnchanged /\ PureUnchanged

\* url_message up to the first await                          (main.py:198-206)
url_message(user_id, text) ==
    /\ BagCardinality(tasks) < MaxTasks
    /\ LooksLikeUrl(text)
    /\ SumOver(genCount, Sessions) + UrlInFlight < MaxGens
    /\ tasks' = Suspend(ScrapeTask(user_id, text))
    /\ last' = Obs("url_message", user_id, text, NoDetails, NotGenerated,
                   NotDistributed, NoDraft, <<UrlReceivedMsg>>, {}, FALSE)
    /\ UNCHANGED <<user_draft_content, genCount, distributed>>
    /\ EnvUnchanged /\ PureUnchanged

\* url_message from the scrape to the end                     (main.py:208-236)
url_message_work(task) ==
    LET user_id == task.user_id
        url == task.url
    IN
    /\ task.pc = "scrape"
    /\ tasks' = Resume(task)
    /\ \E product_details \in ScrapeResults(url) :
        IF ScrapeFailed(product_details)
        THEN /\ last' = Obs("url_message_work", user_id, url, product_details,
                            NotGenerated, NotDistributed, NoDraft,
                            <<ScrapeFailedMsg>>, {"scrape"}, FALSE)
             /\ UNCHANGED <<user_draft_content, genCount>>
        ELSE \E outcome \in GeminiOutcomes :
            LET g == generate_sales_copy(gemini_client, outcome)
                gcalls == {"scrape", "generate"}
                          \cup (IF g.called THEN {"gemini"} ELSE {})
            IN  IF GenerationFailed(g.dict)
                THEN /\ last' = Obs("url_message_work", user_id, url,
                                    product_details, g, NotDistributed, NoDraft,
                                    <<GenerationFailedMsg(g.markdown)>>, gcalls,
                                    FALSE)
                     /\ UNCHANGED <<user_draft_content, genCount>>
                ELSE /\ user_draft_content' =
                            Put(user_draft_content, user_id,
                                Draft(g.dict, user_id, genCount[user_id] + 1))
                     /\ genCount' = [genCount EXCEPT ![user_id] = @ + 1]
                     /\ last' = Obs("url_message_work", user_id, url,
                                    product_details, g, NotDistributed, NoDraft,
                                    <<DraftReadyMsg(product_details, g.markdown)>>,
                                    gcalls, FALSE)
    /\ UNCHANGED distributed
    /\ EnvUnchanged /\ PureUnchanged

\* approve_command, nothing stored                            (main.py:241-245)
approve_command_nothing(user_id) ==
    /\ ~DraftPresent(user_draft_content, user_id)
    /\ last' = Obs("approve_command", user_id, <<>>, NoDetails, NotGenerated,
                   NotDistributed, NoDraft, <<NoContentMsg>>, {}, FALSE)
    /\ UNCHANGED <<user_draft_content, tasks, genCount, distributed>>
    /\ EnvUnchanged /\ PureUnchanged

\* approve_command up to the await after the pop              (main.py:241-249)
approve_command(user_id) ==
    /\ BagCardinality(tasks) < MaxTasks
    /\ DraftPresent(user_draft_content, user_id)
    /\ IF user_id \in DOMAIN user_draft_content
       THEN /\ user_draft_content' = PopRest(user_draft_content, user_id)
            /\ tasks' = Suspend(DistributeTask(user_id,
                                               user_draft_content[user_id]))
            /\ last' = Obs("approve_command", user_id, <<>>, NoDetails,
                           NotGenerated, NotDistributed, NoDraft,
                           <<ApprovalReceivedMsg>>, {}, FALSE)
       ELSE \* dict.pop raises KeyError and the handler ends
            /\ last' = Obs("approve_command", user_id, <<>>, NoDetails,
                           NotGenerated, NotDistributed, NoDraft, <<>>, {}, TRUE)
            /\ UNCHANGED <<user_draft_content, tasks>>
    /\ UNCHANGED <<genCount, distributed>>
    /\ EnvUnchanged /\ PureUnchanged

\* Outcomes of the post used by the session handlers
SessionPostOutcomes ==
    {[kind |-> "RequestException", e |-> "timeout", json |-> JsonNull],
     [kind |-> "Exception", e |-> "ValueError", json |-> JsonNull],
     [kind |-> "json", e |-> "",
      json |-> JsonObject(("status" :> "success")
                          @@ ("data" :> JsonObject("post_id" :> "42")))],
     [kind |-> "json", e |-> "",
      json |-> JsonObject(("status" :> "error") @@ ("message" :> "bad id"))]}

\* approve_command from the distribution to the end           (main.py:251-254)
approve_command_distribute(task) ==
    LET user_id == task.user_id
        content_to_distribute == task.content_to_distribute
    IN
    /\ task.pc = "distribute"
    /\ tasks' = Resume(task)
    /\ distributed' = [distributed EXCEPT ![user_id] =
                          Append(@, [by |-> content_to_distribute.by,
                                     gen |-> content_to_distribute.gen])]
    /\ \E outcome \in SessionPostOutcomes :
        LET r == distribute_content_socialbu(SOCIALBU_API_KEY,
                                             content_to_distribute.dict, outcome)
        IN  last' = Obs("approve_command_distribute", user_id, <<>>, NoDetails,
                        NotGenerated, r, content_to_distribute,
                        IF r.raised THEN <<>>
                        ELSE <<DistributionStatusMsg(r.result)>>,
                        {"distribute"} \cup (IF r.posted THEN {"post"} ELSE {}),
                        r.raised)
    /\ UNCHANGED <<user_draft_content, genCount>>
    /\ EnvUnchanged /\ PureUnchanged

NoResponse == [kind |-> "none", e |-> "", json |-> JsonNull]

Init ==
    /\ user_draft_content = [u \in {} |-> NoDraft]
    /\ gemini_client \in BOOLEAN
    /\ SOCIALBU_API_KEY \in BOOLEAN
    /\ tasks = EmptyBag
    /\ genCount = [u \in Sessions |-> 0]
    /\ distributed = [u \in Sessions |-> <<>>]
    /\ last = NoObs
    /\ raw_text = <<>>
    /\ content_dict = PyNone
    /\ socialbu_response = NoResponse
    /\ distribution_result = NotDistributed

Next ==
    \/ \E user_id \in Sessions, text \in MessageTexts :
          url_message_reject(user_id, text)
    \/ \E user_id \in Sessions, text \in MessageTexts : url_message(user_id, text)
    \/ \E task \in Suspended : url_message_work(task)
    \/ \E user_id \in Sessions : approve_command_nothing(user_id)
    \/ \E user_id \in Sessions : approve_command(user_id)
    \/ \E task \in Suspended : approve_command_distribute(task)

Spec == Init /\ [][Next]_vars

(***************************************************************************)
(* The section parser on its own: Init draws the text the model returned,  *)
(* the step parses it.                                                     *)
(***************************************************************************)
InitParse ==
    /\ raw_text \in ParserInputs
    /\ content_dict = PyNone
    /\ user_draft_content = [u \in {} |-> NoDraft]
    /\ gemini_client = TRUE
    /\ SOCIALBU_API_KEY = TRUE
    /\ tasks = EmptyBag
    /\ genCount = [u \in Sessions |-> 0]
    /\ distributed = [u \in Sessions |-> <<>>]
    /\ last = NoObs
    /\ socialbu_response = NoResponse
    /\ distribution_result = NotDistributed

\* main.py:109-130
parse_response ==
    /\ content_dict.isNone
    /\ content_dict' = PyDict(ParseSections(raw_text))
    /\ UNCHANGED <<user_draft_content, gemini_client, SOCIALBU_API_KEY, tasks,
                   genCount, distributed, last, raw_text, socialbu_response,
                   distribution_result>>

NextParse == parse_response

SpecParse == InitParse /\ [][NextParse]_vars

(***************************************************************************)
(* The distributor on its own: Init draws the credential, the approved     *)
(* dict and what the service does; the step runs the function.             *)
(***************************************************************************)
DistributorInputs == {PyDict(ParseSections(t)) : t \in GenTexts}

InitDistribute ==
    /\ SOCIALBU_API_KEY \in BOOLEAN
    /\ content_dict \in DistributorInputs
    /\ socialbu_response \in PostOutcomes
    /\ distribution_result = NotDistributed
    /\ raw_text = <<>>
    /\ user_draft_content = [u \in {} |-> NoDraft]
    /\ gemini_client = TRUE
    /\ tasks = EmptyBag
    /\ genCount = [u \in Sessions |-> 0]
    /\ distributed = [u \in Sessions |-> <<>>]
    /\ last = NoObs

\* main.py:140-172
distribute ==
    /\ last.handler = "none"
    /\ distribution_result' =
          distribute_content_socialbu(SOCIALBU_API_KEY, content_dict,
                                      socialbu_response)
    /\ last' = [NoObs EXCEPT !.handler = "distribute_content_socialbu"]
    /\ UNCHANGED <<user_draft_content, gemini_client, SOCIALBU_API_KEY, tasks,
                   genCount, distributed, raw_text, content_dict,
                   socialbu_response>>

NextDistribute == distribute

SpecDistribute == InitDistribute /\ [][NextDistribute]_vars

(***************************************************************************)
(* C7.  Section parser: a platform is a key of the parsed dict iff its     *)
(* header occurs in the text, and each present platform maps to the        *)
(* stripped text from just after its header to the start of the next "## " *)
(* header, or to the end of the text when no "## " follows (always the end *)
(* of the text for Pinterest).                                             *)
(***************************************************************************)
HeaderOccurs(text, platform) ==
    \E i \in 1..(Len(text) - 1) : text[i] = HeaderMark /\ text[i + 1] = platform

FirstHeaderEnd(text, platform) ==
    1 + SeqMin({i \in 1..(Len(text) - 1) :
                    text[i] = HeaderMark /\ text[i + 1] = platform})

DocumentedSpan(text, platform) ==
    LET from == FirstHeaderEnd(text, platform) + 1
        nexts == {j \in from..Len(text) : text[j] = HeaderMark}
        to == IF platform = "Pinterest" \/ nexts = {}
              THEN Len(text) ELSE SeqMin(nexts) - 1
    IN  Strip(SubSeq(text, from, to))

C7_ParserAsDocumented ==
    ~content_dict.isNone =>
        /\ DOMAIN content_dict.items = {p \in Platforms : HeaderOccurs(raw_text, p)}
        /\ \A p \in DOMAIN content_dict.items :
              content_dict.items[p] = DocumentedSpan(raw_text, p)

(***************************************************************************)
(* C9.  Distributor outcome mapping: a declared status of success gives    *)
(* the confirmation with the service's post id, any other declared status  *)
(* the message with the service's error text, a transport failure the      *)
(* network-failure message, a missing credential the credential message    *)
(* without a network call; no exception leaves the function.               *)
(***************************************************************************)
DeclaresStatus(outcome) ==
    outcome.kind = "json" /\ outcome.json.type = "object"

DeclaredStatus(outcome) == DictGet(outcome.json.items, "status", "None")

C9_OutcomeMapping ==
    last.handler = "distribute_content_socialbu" =>
        LET r == distribution_result
            o == socialbu_response
        IN  /\ ~r.raised
            /\ ~SOCIALBU_API_KEY => r.result.msg = "KeyMissing" /\ ~r.posted
            /\ SOCIALBU_API_KEY /\ o.kind = "RequestException"
                  => r.result.msg = "NetworkError"
            /\ SOCIALBU_API_KEY /\ DeclaresStatus(o)
                  => IF DeclaredStatus(o) = "success"
                     THEN r.result.msg = "Distributed"
                     ELSE r.result.msg = "SocialBuError"

(***************************************************************************)
(* Properties of the session handlers (specification Spec).  last is the   *)
(* record of the step that led to the current state, so last' describes    *)
(* the step being taken.                                                   *)
(***************************************************************************)
Tag(draft) == [by |-> draft.by, gen |-> draft.gen]

(***************************************************************************)
(* C1.  An approval handled while the store has no entry for the user      *)
(* does not call the distributor, now or later, replies that nothing is    *)
(* waiting and leaves the store as it was.                                 *)
(***************************************************************************)
C1_ApproveWithoutDraft ==
    [][\A u \in Sessions :
        (/\ last'.handler = "approve_command"
         /\ last'.user_id = u
         /\ u \notin DOMAIN user_draft_content)
        => /\ last'.replies = <<NoContentMsg>>
           /\ last'.calls = {}
           /\ ~last'.raised
           /\ tasks' = tasks
           /\ distributed' = distributed
           /\ user_draft_content' = user_draft_content]_vars

C1_Witness ==
    /\ last.handler = "approve_command"
    /\ last.replies = <<NoContentMsg>>
    /\ last.user_id \notin DOMAIN user_draft_content
    /\ DOMAIN user_draft_content # {}

(***************************************************************************)
(* C2.  One draft per user, the latest generation wins: a successful       *)
(* generation stores exactly the dict it parsed, replacing what was there; *)
(* an approval takes exactly the stored (latest) draft, removes the entry  *)
(* and the distributor is given that draft.                                *)
(***************************************************************************)
C2_LatestDraftWins ==
    [][\A u \in Sessions :
        /\ (/\ last'.handler = "url_message_work"
            /\ last'.user_id = u
            /\ last'.replies[1].msg = "DraftReady")
           => /\ u \in DOMAIN user_draft_content'
              /\ genCount'[u] = genCount[u] + 1
              /\ user_draft_content'[u] = Draft(last'.generated.dict, u, genCount'[u])
        /\ (/\ last'.handler = "approve_command"
            /\ last'.user_id = u
            /\ u \in DOMAIN user_draft_content)
           => /\ user_draft_content[u].gen = genCount[u]
              /\ u \notin DOMAIN user_draft_content'
              /\ tasks' = tasks (+) SetToBag({DistributeTask(u, user_draft_content[u])})
        /\ (/\ last'.handler = "approve_command_distribute"
            /\ last'.user_id = u)
           => /\ BagIn(DistributeTask(u, last'.handed), tasks)
              /\ tasks' = tasks (-) SetToBag({DistributeTask(u, last'.handed)})
              /\ last'.distribution.posted
                    => last'.distribution.payload = payload(last'.handed.dict)]_vars

\* two drafts were generated for a user and the only one distributed is the second
C2_Witness ==
    /\ last.handler = "approve_command_distribute"
    /\ last.handed.gen = 2
    /\ distributed[last.user_id] = <<Tag(last.handed)>>
    /\ last.user_id \notin DOMAIN user_draft_content
    /\ tasks = EmptyBag

(***************************************************************************)
(* C3.  Single consumption: a draft is in one place only (the store, a     *)
(* suspended approval, or the list of drafts given to the distributor), no *)
(* draft is given to the distributor twice, the distributor is called for  *)
(* a user no more often than drafts were stored for that user, and an      *)
(* approval that took a draft leaves no entry behind.                      *)
(***************************************************************************)
DistributeInFlight(u) ==
    {task \in BagToSet(tasks) : task.pc = "distribute" /\ task.user_id = u}

C3_SingleConsumption ==
    \A u \in Sessions :
        /\ \A task \in DistributeInFlight(u) : CopiesIn(task, tasks) = 1
        /\ Len(distributed[u]) + Cardinality(DistributeInFlight(u)) <= genCount[u]
        /\ \A i, j \in 1..Len(distributed[u]) :
              distributed[u][i] = distributed[u][j] => i = j
        /\ \A task \in DistributeInFlight(u) :
              /\ \A i \in 1..Len(distributed[u]) :
                    distributed[u][i] # Tag(task.content_to_distribute)
              /\ \A other \in DistributeInFlight(u) :
                    Tag(other.content_to_distribute)
                        = Tag(task.content_to_distribute) => other = task
              /\ \A v \in DOMAIN user_draft_content :
                    Tag(user_draft_content[v]) # Tag(task.content_to_distribute)
        /\ \A v \in DOMAIN user_draft_content :
              \A i \in 1..Len(distributed[u]) :
                    distributed[u][i] # Tag(user_draft_content[v])
        /\ (last.handler = "approve_command" /\ last.user_id = u
            /\ last.replies = <<ApprovalReceivedMsg>>)
              => u \notin DOMAIN user_draft_content

\* one draft, two approvals: one distribution, the second approval is refused
C3_Witness ==
    /\ last.handler = "approve_command"
    /\ last.replies = <<NoContentMsg>>
    /\ genCount[last.user_id] = 1
    /\ Len(distributed[last.user_id]) = 1

(***************************************************************************)
(* C4.  As claimed: after a failed distribution the draft that was pending *)
(* is still pending.                                                       *)
(***************************************************************************)
DistributionFailed(obs) ==
    /\ obs.handler = "approve_command_distribute"
    /\ (obs.raised \/ obs.distribution.result.msg # "Distributed")

C4_DraftKeptOnFailure ==
    DistributionFailed(last)
        => /\ last.user_id \in DOMAIN user_draft_content
           /\ user_draft_content[last.user_id] = last.handed

(***************************************************************************)
(* C4, amended.  The draft left the store before the distributor ran and   *)
(* a failed distribution does not put it back: after the failure no store  *)
(* entry holds the draft that was handed over, and the distribution step   *)
(* itself does not touch the store.                                        *)
(***************************************************************************)
C4_DraftGoneOnFailure ==
    [][(last'.handler = "approve_command_distribute"
            => user_draft_content' = user_draft_content)
       /\ (DistributionFailed(last')
            => \A v \in DOMAIN user_draft_content' :
                  Tag(user_draft_content'[v]) # Tag(last'.handed))]_vars

C4_Witness ==
    /\ DistributionFailed(last)
    /\ last.distribution.result.msg = "NetworkError"
    /\ last.user_id \notin DOMAIN user_draft_content

(***************************************************************************)
(* C5.  When the scrape returns None, or the generator returns no dict,    *)
(* the handler replies with an error and the store is what it was.         *)
(***************************************************************************)
ExtractorFailed(obs) == obs.product_details.isNone
GeneratorFailed(obs) == "generate" \in obs.calls /\ obs.generated.dict.isNone

C5_FailureKeepsStore ==
    [][(last'.handler = "url_message_work"
        /\ (ExtractorFailed(last') \/ GeneratorFailed(last')))
       => /\ Len(last'.replies) = 1
          /\ last'.replies[1].msg \in {"ScrapeFailed", "GenerationFailed"}
          /\ user_draft_content' = user_draft_content
          /\ genCount' = genCount]_vars

\* the generator failed for a user whose earlier draft is still pending
C5_Witness ==
    /\ last.handler = "url_message_work"
    /\ GeneratorFailed(last)
    /\ last.user_id \in DOMAIN user_draft_content

(***************************************************************************)
(* C6.  As claimed: whenever the scrape returns details the generator is   *)
(* run, and whenever the generator returns a dict (even an empty one) the  *)
(* dict is stored and the reply is the draft with the approval prompt.     *)
(***************************************************************************)
DraftStoredAndShown(obs) ==
    /\ obs.replies = <<DraftReadyMsg(obs.product_details, obs.generated.markdown)>>
    /\ obs.user_id \in DOMAIN user_draft_content
    /\ user_draft_content[obs.user_id].dict = obs.generated.dict

C6_SuccessPath ==
    last.handler = "url_message_work" =>
        /\ ~last.product_details.isNone => "generate" \in last.calls
        /\ ("generate" \in last.calls /\ ~last.generated.dict.isNone)
              => DraftStoredAndShown(last)

(***************************************************************************)
(* C6, amended.  The generator is run whenever the scrape returns details  *)
(* whose description does not contain "Description Not Found" (the title   *)
(* may be its sentinel); the dict is stored and shown whenever the         *)
(* generator returns a dict with at least one platform (fewer than four    *)
(* included).  A sentinel description and an empty dict are both answered  *)
(* with an error and nothing is stored.                                    *)
(***************************************************************************)
DescriptionMissing(obs) ==
    \E i \in 1..(Len(obs.product_details.description) - 2) :
        /\ obs.product_details.description[i] = "Description"
        /\ obs.product_details.description[i + 1] = "Not"
        /\ obs.product_details.description[i + 2] = "Found"

C6_SuccessPathAmended ==
    [][last'.handler = "url_message_work" =>
        /\ (~last'.product_details.isNone /\ ~DescriptionMissing(last'))
              => "generate" \in last'.calls
        /\ (~last'.product_details.isNone /\ DescriptionMissing(last'))
              => /\ last'.replies = <<ScrapeFailedMsg>>
                 /\ last'.calls = {"scrape"}
                 /\ user_draft_content' = user_draft_content
        /\ ("generate" \in last'.calls /\ ~last'.generated.dict.isNone
            /\ DOMAIN last'.generated.dict.items # {})
              => /\ last'.replies = <<DraftReadyMsg(last'.product_details,
                                                    last'.generated.markdown)>>
                 /\ last'.user_id \in DOMAIN user_draft_content'
                 /\ user_draft_content'[last'.user_id].dict = last'.generated.dict
        /\ ("generate" \in last'.calls /\ ~last'.generated.dict.isNone
            /\ DOMAIN last'.generated.dict.items = {})
              => /\ last'.replies = <<GenerationFailedMsg(last'.generated.markdown)>>
                 /\ user_draft_content' = user_draft_content]_vars

\* sentinel title, two of the four headers found: the draft is stored and shown
C6_Witness ==
    /\ last.handler = "url_message_work"
    /\ last.product_details.title = TitleNotFound
    /\ Cardinality(DOMAIN last.generated.dict.items) = 2
    /\ DraftStoredAndShown(last)

(***************************************************************************)
(* C8.  A text message that does not start with "http" is answered with    *)
(* the validation message; nothing is scraped or generated, now or later,  *)
(* and the store is untouched.                                             *)
(***************************************************************************)
BeginsWithHttp(text) ==
    /\ Len(text) >= 4
    /\ text[1] = "h" /\ text[2] = "t" /\ text[3] = "t" /\ text[4] = "p"

C8_NonUrlRejected ==
    [][(last'.handler = "url_message" /\ ~BeginsWithHttp(last'.text))
       => /\ last'.replies = <<InvalidUrlMsg>>
          /\ last'.calls = {}
          /\ tasks' = tasks
          /\ user_draft_content' = user_draft_content
          /\ genCount' = genCount]_vars

\* "see http:x" is refused while a draft is pending
C8_Witness ==
    /\ last.handler = "url_message"
    /\ ~BeginsWithHttp(last.text)
    /\ \E i \in 1..Len(last.text) : last.text[i] = "p"
    /\ last.replies = <<InvalidUrlMsg>>
    /\ last.user_id \in DOMAIN user_draft_content

(***************************************************************************)
(* C10.  Session isolation: a step taken for one user leaves every other   *)
(* user's store entry as it was, a stored or handed-over draft belongs to  *)
(* the user it is kept for, and the distributor is only given drafts       *)
(* generated by a URL message of the approving user.                       *)
(***************************************************************************)
C10_SessionIsolation ==
    [][/\ \A b \in Sessions \ {last'.user_id} :
            /\ b \in DOMAIN user_draft_content' <=> b \in DOMAIN user_draft_content
            /\ b \in DOMAIN user_draft_content
                  => user_draft_content'[b] = user_draft_content[b]
       /\ \A a \in DOMAIN user_draft_content' : user_draft_content'[a].by = a
       /\ \A task \in BagToSet(tasks') :
            task.pc = "distribute" => task.content_to_distribute.by = task.user_id
       /\ \A a \in Sessions : \A i \in 1..Len(distributed'[a]) :
            /\ distributed'[a][i].by = a
            /\ distributed'[a][i].gen \in 1..genCount'[a]]_vars

\* a draft is generated for one user while another user's approval is suspended
\* at its await, and a third step finds both as they should be
C10_Witness ==
    /\ last.handler = "url_message_work"
    /\ last.user_id \in DOMAIN user_draft_content
    /\ \E task \in BagToSet(tasks) :
          /\ task.pc = "distribute"
          /\ task.user_id # last.user_id
====
